---- MODULE Spec2Model ----
(***************************************************************************)
(* The log-pull pipeline of nagini: lib.ParseLogs (the driver), the task   *)
(* runners runCommand / runScript, the per-day aggregator                  *)
(* ConcatFilesParallelByDate, the line concatenator concatFilesToFd and    *)
(* the directory manager TryCreateDir.                                     *)
(*                                                                         *)
(* Time is counted in whole hours since a midnight (every caller parses    *)
(* the range with TimeFormatShort, which has hour resolution, in UTC).     *)
(* A file name is the sequence of the character codes of its letters, so   *)
(* that sort.Strings is the byte-wise lexicographic order it is in Go.     *)
(***************************************************************************)
EXTENDS Integers, Sequences, FiniteSets, TLC

\* ------------------------------------------------------------------ bounds
\* the longest range explored, in hours (end - start)
MaxSpan == 1
\* the most input files all the globs of one run match together
MaxTasks == 2
\* the most lines of a source given to concatFilesToFd on its own
MaxLines == 2
\* the most entries of a directory given to TryCreateDir on its own
MaxEntries == 2

\* --------------------------------------------------------- program constants
\* 24 * time.Hour, the length of a day, in hours
HoursPerDay == 24

\* bufio.MaxScanTokenSize, 64 * 1024: the longest line, in bytes, the
\* bufio.Scanner of concatFilesToFd takes with the buffer it is given
MaxScanTokenSize == 65536

\* ".json", the extension appended to every artifact and day file
JsonExt == <<46, 106, 115, 111, 110>>

\* what follows "<logType>.<HH>" in the names of the files of the log
\* directory: "" (the file is named exactly <logType>.<HH>) and "-"
Suffixes == {<< >>, <<45>>}

Handlers == {"runCommand", "runScript"}

\* the start hours explored: the last hour of a day, and midnight
StartHours == {HoursPerDay - 1, HoursPerDay}

VARIABLES
    startTime, endTime, \* the range, in hours
    finalMode,      \* the flags writeStdout and singleFile, once read is set
    handler,        \* the logHandler ParseLogs is called with
    outDir,         \* the output directory as the filesystem has it
    files,          \* path -> lines, the files of the output directory
    stdout,         \* the lines ConcatToStdout wrote to standard output
    pc,             \* where the driver is
    dirErr,         \* what TryCreateDir returned
    curDate, curTime, taskCount, tempFiles, outputFiles,
    wgAll, wgDate,  \* the global barrier, and each day's barrier
    tasks,          \* the dispatched Task Runners, in dispatch order
    aggs,           \* day -> its dispatched Day Aggregator
    dayBar, taskBar, \* the two progress bars: [total, current]
    globErrs,       \* the glob errors logged: none (0), an odd (1) or an even (2) number
    globbed,        \* history: the hours globbed, in order
    threads,        \* the parallelism hint ParseLogs is called with
    concat,         \* a call of concatFilesToFd on its own, step by step
    tcd,            \* a call of TryCreateDir on its own, step by step
    cfg             \* a call of ParseConfig on its own, step by step

\* the state of a run of ParseLogs
PipelineVars ==
    <<startTime, endTime, finalMode, handler, outDir, files,
      stdout, pc, dirErr, curDate, curTime, taskCount, tempFiles,
      outputFiles, wgAll, wgDate, tasks, aggs, dayBar, taskBar,
      globErrs, globbed, threads>>

vars == <<startTime, endTime, finalMode, handler, outDir, files,
          stdout, pc, dirErr, curDate, curTime, taskCount, tempFiles,
          outputFiles, wgAll, wgDate, tasks, aggs, dayBar, taskBar,
          globErrs, globbed, threads, concat, tcd, cfg>>

\* ------------------------------------------------------------------- time
\* t.Truncate(24 * time.Hour)
Truncate(t) == t - (t % HoursPerDay)

\* t.Round(24 * time.Hour): halfway values round up
Round(t) == Truncate(t + (HoursPerDay \div 2))

\* int(endTime.Round(day).Sub(startTime.Truncate(day)).Hours() / 24.0)
DayCount(s, e) == (Round(e) - Truncate(s)) \div HoursPerDay

\* ------------------------------------------------------------------ paths
\* byte-wise lexicographic order of two strings, as sort.Strings compares
RECURSIVE StrLess(_, _)
StrLess(a, b) ==
    IF b = << >> THEN FALSE
    ELSE IF a = << >> THEN TRUE
    ELSE IF Head(a) # Head(b) THEN Head(a) < Head(b)
    ELSE StrLess(Tail(a), Tail(b))

\* curTime.Format(TimeFormatDateNum): a zero-padded time stamp of fixed
\* width, which sorts as the hour it stands for
TimeStamp(h) == h

\* a mutant of TempPath: the name of the input file is left out
TempPathOfHour(h, suffix) == [k |-> "tmp", ts |-> TimeStamp(h), name |-> JsonExt]

\* filepath.Join(outDir, curTime.Format(TimeFormatDateNum) + Base(logFile) + ".json")
\* of the name of the input file only its suffix is kept, the rest being
\* the same for all the files of an hour
TempPath(h, suffix) == [k |-> "tmp", ts |-> TimeStamp(h), name |-> suffix \o JsonExt]

\* filepath.Join(outDir, "<logType>-<YYYY>-<MM>-<DD>.json")
DayPath(d) == [k |-> "day", ts |-> d, name |-> JsonExt]

\* filepath.Join(outDir, "<logType>.json")
FinalPath == [k |-> "final", ts |-> 0, name |-> JsonExt]

\* the string order of two paths of the same kind: the fixed-width time
\* stamp first, then the rest of the name
PathLess(p, q) ==
    \/ p.ts < q.ts
    \/ p.ts = q.ts /\ StrLess(p.name, q.name)

\* a mutant of Insert: the path is put first, wherever it belongs
InsertFirst(p, s) == <<p>> \o s

\* one insertion step of the sort
RECURSIVE Insert(_, _)
Insert(p, s) ==
    IF s = << >> THEN <<p>>
    ELSE IF PathLess(p, Head(s)) THEN <<p>> \o s
    ELSE <<Head(s)>> \o Insert(p, Tail(s))

\* a mutant of SortStrings: the list is left in the order it was given
SortStringsNoSort(s) == s

\* sort.Strings(inputFiles)
RECURSIVE SortStrings(_)
SortStrings(s) ==
    IF s = << >> THEN << >> ELSE Insert(Head(s), SortStrings(Tail(s)))

\* the matches of filepath.Glob, which returns the names sorted
RECURSIVE InsertStr(_, _)
InsertStr(a, s) ==
    IF s = << >> THEN <<a>>
    ELSE IF StrLess(a, Head(s)) THEN <<a>> \o s
    ELSE <<Head(s)>> \o InsertStr(a, Tail(s))

RECURSIVE GlobOrder(_)
GlobOrder(S) ==
    IF S = {} THEN << >>
    ELSE LET a == CHOOSE x \in S : TRUE IN InsertStr(a, GlobOrder(S \ {a}))

\* ------------------------------------------------------- directory manager
\* the output directories a run may be started on
DirStates ==
    [kind : {"absent"}, parent : {"missing", "file", "dir", "dirNoMkdir"},
     foreign : {FALSE}, openRW : {FALSE}]
    \cup [kind : {"file"}, parent : {"dir"}, foreign : {FALSE}, openRW : {FALSE}]
    \cup [kind : {"dir"}, parent : {"dir"}, foreign : BOOLEAN, openRW : BOOLEAN]

\* the directories the runs of the pipeline are started on: one to create,
\* one whose parent is missing, a file of the same name, and directories
\* with and without entries
RunDirs ==
    {dir \in DirStates :
        /\ dir.parent \in {"missing", "dir"}
        /\ (dir.kind = "dir" /\ ~dir.foreign) => ~dir.openRW}

\* the error TryCreateDir(dir, empty) returns, "nil" for none
TryCreateDirErr(dir, entries, empty) ==
    IF dir.kind = "absent" THEN
        IF dir.parent = "missing" THEN "parentMissing"
        ELSE IF dir.parent = "file" THEN "parentNotDir"
        ELSE IF dir.parent = "dirNoMkdir" THEN "mkdir"
        ELSE "nil"
    ELSE IF dir.kind = "file" THEN "conflict"
    ELSE IF ~dir.openRW THEN "nil"
    ELSE IF empty /\ entries THEN "nonEmpty"
    ELSE "nil"

\* the directory after TryCreateDir: os.Mkdir is its only effect
TryCreateDirAfter(dir) ==
    IF dir.kind = "absent" /\ dir.parent = "dir"
    THEN [dir EXCEPT !.kind = "dir"]
    ELSE dir

\* os.Create of a file of the output directory succeeds
CanCreate(dir) == dir.kind = "dir"

\* the directory holds an entry
HasEntries(dir, fs) == dir.foreign \/ DOMAIN fs # {}

\* ------------------------------------------------------------ filesystem
NoFiles == [p \in {} |-> << >>]

\* os.Create followed by the writes: the file holds exactly these lines
Put(fs, p, lines) == [q \in DOMAIN fs \cup {p} |-> IF q = p THEN lines ELSE fs[q]]

\* os.Remove of every path of the set
RemoveAll(fs, ps) == [q \in DOMAIN fs \ ps |-> fs[q]]

\* the paths of a list
Range(s) == {s[i] : i \in DOMAIN s}

\* ---------------------------------------------------------------- Init
\* the hint a run is given
Threads == {1}

\* no call of concatFilesToFd or TryCreateDir on its own
ConcatIdle ==
    [pc |-> "idle", given |-> << >>, inputFiles |-> << >>, fs0 |-> NoFiles,
     fs |-> NoFiles, locked |-> {}, out |-> << >>, written |-> {}, logged |-> {},
     i |-> 0, deleteInputAfterRead |-> FALSE, ignoreMissing |-> FALSE,
     err |-> "unset", creatable |-> TRUE]

TcdIdle ==
    [pc |-> "idle",
     dir |-> [kind |-> "absent", parent |-> "dir", foreign |-> FALSE, openRW |-> FALSE],
     given |-> [kind |-> "absent", parent |-> "dir", foreign |-> FALSE, openRW |-> FALSE],
     entries |-> 0, empty |-> FALSE, err |-> "unset", made |-> 0,
     call |-> 1, first |-> [err |-> "unset", made |-> 0]]

\* no call of ParseConfig is under way
CfgIdle ==
    [pc |-> "idle", file |-> [kind |-> "missing", items |-> << >>],
     configBuffer |-> [kind |-> "unread", items |-> << >>],
     configData |-> [DataSources |-> << >>], err |-> "unset"]

\* ParseLogs has just been called with (s, e, h, dir, t)
Called(s, e, h, dir, t) ==
    /\ startTime = s
    /\ endTime = e
    /\ finalMode = [read |-> FALSE, writeStdout |-> FALSE, singleFile |-> FALSE]
    /\ handler = h
    /\ outDir = dir
    /\ threads = t
    /\ files = NoFiles
    /\ stdout = << >>
    /\ pc = "start"
    /\ dirErr = "unset"
    /\ curDate = 0
    /\ curTime = 0
    /\ taskCount = 0
    /\ tempFiles = << >>
    /\ outputFiles = << >>
    /\ wgAll = 0
    /\ wgDate = [d \in {} |-> 0]
    /\ tasks = << >>
    /\ aggs = [d \in {} |-> 0]
    /\ dayBar = [total |-> 0, current |-> 0]
    /\ taskBar = [total |-> 0, current |-> 0]
    /\ globErrs = 0
    /\ globbed = << >>

Init ==
    /\ \E s \in StartHours, h \in Handlers, dir \in RunDirs, t \in Threads :
         \E e \in s .. (s + MaxSpan) : Called(s, e, h, dir, t)
    /\ concat = ConcatIdle
    /\ tcd = TcdIdle
    /\ cfg = CfgIdle

\* no pipeline runs: ParseLogs is not entered
NotCalled ==
    Called(HoursPerDay, HoursPerDay, "runCommand",
           [kind |-> "absent", parent |-> "dir", foreign |-> FALSE, openRW |-> FALSE],
           1)

\* ------------------------------------------------------- line concatenator
\* A file is the sequence of its lines. A line is a record: src and n tell
\* which line of which file it was written as, size is the length of its
\* text in bytes, nl tells whether a newline follows it in the file (only
\* the last line of a file can be without).

\* the Scanner gives up on a line that fills its buffer before the newline
\* is seen: Scan returns false, with ErrTooLong, which nobody reads
TooLong(l) == l.size >= MaxScanTokenSize

\* outFd.WriteString(scanner.Text() + "\n"): the text of the line, which
\* the Scanner gives without its terminator, followed by a newline
WriteString(l) == [l EXCEPT !.nl = TRUE]

\* "for scanner.Scan() { outFd.WriteString(...) }": the lines written for
\* one source, up to the first line the Scanner does not take
RECURSIVE ScanLines(_)
ScanLines(lines) ==
    IF lines = << >> \/ TooLong(Head(lines)) THEN << >>
    ELSE <<WriteString(Head(lines))>> \o ScanLines(Tail(lines))

\* a mutant of ConcatLines: the first source that does not open ends the
\* concatenation
RECURSIVE ConcatLinesUntilMissing(_, _)
ConcatLinesUntilMissing(fs, sorted) ==
    IF sorted = << >> \/ Head(sorted) \notin DOMAIN fs THEN << >>
    ELSE ScanLines(fs[Head(sorted)]) \o ConcatLinesUntilMissing(fs, Tail(sorted))

\* the lines concatFilesToFd writes for the (sorted) list: the lines of
\* every source that opens, a source that does not open is skipped
RECURSIVE ConcatLines(_, _)
ConcatLines(fs, sorted) ==
    IF sorted = << >> THEN << >>
    ELSE (IF Head(sorted) \in DOMAIN fs THEN ScanLines(fs[Head(sorted)]) ELSE << >>)
         \o ConcatLines(fs, Tail(sorted))

\* a mutant of ConcatRemoved: the sources are kept
ConcatRemovedNone(fs, sorted, deleteInputAfterRead) == {}

\* the sources concatFilesToFd removes: those it opened, when asked to
ConcatRemoved(fs, sorted, deleteInputAfterRead) ==
    IF deleteInputAfterRead THEN Range(sorted) \cap DOMAIN fs ELSE {}

\* ConcatFiles(logger, inputFiles, outputFile, delete, ignoreMissing):
\* the error it returns, "nil" for none
ConcatFilesErr(dir) == IF CanCreate(dir) THEN "nil" ELSE "create"

\* the files of the output directory after ConcatFiles
ConcatFilesAfter(dir, fs, inputFiles, outputFile, deleteInputAfterRead) ==
    IF ~CanCreate(dir) THEN fs
    ELSE LET created == Put(fs, outputFile, << >>)
             sorted == SortStrings(inputFiles)
             lines == ConcatLines(created, sorted)
             kept == RemoveAll(created, ConcatRemoved(created, sorted, deleteInputAfterRead))
         IN  IF outputFile \in DOMAIN kept THEN Put(kept, outputFile, lines) ELSE kept

\* --------------------------------------- concatFilesToFd, step by step
\* the sources a call on its own is given: two artifacts of one hour
CatPaths == {TempPath(HoursPerDay, << >>), TempPath(HoursPerDay, <<45>>)}

\* the lists of sources: every order of every set of them
InputLists ==
    {g \in UNION {[1 .. k -> CatPaths] : k \in 0 .. Cardinality(CatPaths)} :
        \A i, j \in DOMAIN g : i # j => g[i] # g[j]}

\* what a source can hold: up to MaxLines lines, each short or too long for
\* the Scanner, the last one with or without its newline
LineShapes ==
    UNION {{[i \in 1 .. k |-> [size |-> sz[i], nl |-> (i < k \/ last)]] :
                sz \in [1 .. k -> {1, MaxScanTokenSize}], last \in BOOLEAN} :
           k \in 0 .. MaxLines}

\* the file at a path with lines of these sizes
FileContents(p, shape) ==
    [i \in DOMAIN shape |->
        [src |-> p, n |-> i, size |-> shape[i].size, nl |-> shape[i].nl]]

\* the filesystems over a set of paths: any of them may be missing
FileSystems(P) ==
    UNION {{[p \in Q |-> FileContents(p, sh[p])] : sh \in [Q -> LineShapes]} :
           Q \in SUBSET P}

\* the call: the list, the files behind it, those of them that do not open
\* though they exist, and the two flags
ConcatCall(g, f, L, d, m) ==
    [pc |-> "sort", given |-> g, inputFiles |-> g, fs0 |-> f, fs |-> f,
     locked |-> L, out |-> << >>, written |-> {}, logged |-> {}, i |-> 0,
     deleteInputAfterRead |-> d, ignoreMissing |-> m, err |-> "unset",
     creatable |-> TRUE]

\* os.Open(inputFile) succeeds
CanOpen(c, p) == p \in DOMAIN c.fs /\ p \notin c.locked

\* a mutant of Continue: the first source that does not open ends the loop
Break(i, n) == n + 1

\* "continue": the loop goes on with the next source
Continue(i, n) == i + 1

\* a mutant of CreateErr: the error of os.Create is not looked at
CreateErrIgnored(creatable) == "nil"

\* outFd, fcErr := os.Create(outputFile): the error, "nil" for none
CreateErr(creatable) == IF creatable THEN "nil" ELSE "create"

\* ConcatFiles: os.Create(outputFile), "return fcErr" when it fails, and
\* concatFilesToFd on the file when it does not
ConcatCreate ==
    /\ concat.pc = "create"
    /\ concat' = IF CreateErr(concat.creatable) # "nil"
                 THEN [concat EXCEPT !.pc = "failed", !.err = CreateErr(concat.creatable)]
                 ELSE [concat EXCEPT !.pc = "sort"]
    /\ UNCHANGED <<PipelineVars, tcd, cfg>>

\* sort.Strings(inputFiles), in place
ConcatSort ==
    /\ concat.pc = "sort"
    /\ concat' = [concat EXCEPT !.pc = "open", !.i = 1,
                                !.inputFiles = SortStrings(@)]
    /\ UNCHANGED <<PipelineVars, tcd, cfg>>

\* os.Open fails: logged unless ignoreMissing, and on to the next source
ConcatOpenFail ==
    /\ concat.pc = "open"
    /\ concat.i <= Len(concat.inputFiles)
    /\ ~CanOpen(concat, concat.inputFiles[concat.i])
    /\ concat' = [concat EXCEPT
                    !.logged = IF concat.ignoreMissing THEN @
                               ELSE @ \cup {concat.inputFiles[concat.i]},
                    !.i = Continue(@, Len(concat.inputFiles))]
    /\ UNCHANGED <<PipelineVars, tcd, cfg>>

\* the source opens: its lines go to outFd one by one, and it is closed
ConcatScan ==
    /\ concat.pc = "open"
    /\ concat.i <= Len(concat.inputFiles)
    /\ CanOpen(concat, concat.inputFiles[concat.i])
    /\ concat' = [concat EXCEPT
                    !.pc = "remove",
                    !.out = @ \o ScanLines(concat.fs[concat.inputFiles[concat.i]]),
                    !.written = @ \cup {concat.inputFiles[concat.i]}]
    /\ UNCHANGED <<PipelineVars, tcd, cfg>>

\* "if deleteInputAfterRead { os.Remove(inputFile) }", and the next source
ConcatRemove ==
    /\ concat.pc = "remove"
    /\ concat' = [concat EXCEPT
                    !.pc = "open",
                    !.fs = RemoveAll(@, ConcatRemoved(@, <<concat.inputFiles[concat.i]>>,
                                                      concat.deleteInputAfterRead)),
                    !.i = @ + 1]
    /\ UNCHANGED <<PipelineVars, tcd, cfg>>

\* return outFd.Close()
ConcatClose ==
    /\ concat.pc = "open"
    /\ concat.i > Len(concat.inputFiles)
    /\ concat' = [concat EXCEPT !.pc = "returned", !.err = "nil"]
    /\ UNCHANGED <<PipelineVars, tcd, cfg>>

ConcatNext ==
    \/ ConcatCreate
    \/ ConcatSort
    \/ ConcatOpenFail
    \/ ConcatScan
    \/ ConcatRemove
    \/ ConcatClose

\* a call of concatFilesToFd on its own, while no pipeline runs: on a
\* destination that is open, or from ConcatFiles, which creates it first
ConcatInit ==
    /\ NotCalled
    /\ \E g \in InputLists :
         \E f \in FileSystems(Range(g)) :
            \E L \in SUBSET DOMAIN f, d \in BOOLEAN, m \in BOOLEAN :
                \/ concat = ConcatCall(g, f, L, d, m)
                \/ \E b \in BOOLEAN :
                      concat = [ConcatCall(g, f, L, d, m) EXCEPT
                                    !.pc = "create", !.creatable = b]
    /\ tcd = TcdIdle
    /\ cfg = CfgIdle

ConcatSpec == ConcatInit /\ [][ConcatNext]_vars

\* ------------------------------------------- TryCreateDir, step by step
\* the calls: the directory (given keeps it as it was), the number of its
\* entries and the empty flag; a directory with foreign entries has entries
TcdCalls ==
    {[pc |-> "stat", dir |-> dir, given |-> dir, entries |-> n, empty |-> e,
      err |-> "unset", made |-> 0, call |-> 1,
      first |-> [err |-> "unset", made |-> 0]] :
        dir \in {x \in DirStates : ~x.foreign}, n \in 0 .. MaxEntries, e \in BOOLEAN}

\* the path is a file: the error of a conflict replaces it with a directory
OnConflictReplace(t) ==
    [t EXCEPT !.pc = "returned", !.err = "nil", !.dir.kind = "dir", !.made = @ + 1]

\* the path exists and is no directory: err is the error of a conflict
OnConflict(t) ==
    [t EXCEPT !.pc = "returned", !.err = "conflict"]

\* a mutant of StatBranch: os.Stat finds nothing, whatever is there
StatBranchNotExist(dir) == "parent"

\* the branch taken on dirInfo, err := os.Stat(dir)
StatBranch(dir) ==
    IF dir.kind = "absent" THEN "parent"
    ELSE IF dir.kind = "file" THEN "conflict"
    ELSE "open"

\* dirInfo, err := os.Stat(dir) and the three branches on it
TcdStat ==
    /\ tcd.pc = "stat"
    /\ tcd' = IF StatBranch(tcd.dir) = "parent"
              THEN [tcd EXCEPT !.pc = "parent", !.err = "notExist"]
              ELSE IF StatBranch(tcd.dir) = "conflict"
              THEN OnConflict(tcd)
              ELSE [tcd EXCEPT !.pc = "open", !.err = "nil"]
    /\ UNCHANGED <<PipelineVars, concat, cfg>>

\* os.Stat(filepath.Dir(dir)): the parent must exist and be a directory
TcdParent ==
    /\ tcd.pc = "parent"
    /\ tcd' = IF tcd.dir.parent = "missing"
              THEN [tcd EXCEPT !.pc = "returned", !.err = "parentMissing"]
              ELSE IF tcd.dir.parent = "file"
              THEN [tcd EXCEPT !.pc = "returned", !.err = "parentNotDir"]
              ELSE [tcd EXCEPT !.pc = "mkdir"]
    /\ UNCHANGED <<PipelineVars, concat, cfg>>

\* err = os.Mkdir(dir, 0775), and "return err"; made counts the directories
\* the call created
TcdMkdir ==
    /\ tcd.pc = "mkdir"
    /\ tcd' = IF tcd.dir.parent = "dirNoMkdir"
              THEN [tcd EXCEPT !.pc = "returned", !.err = "mkdir"]
              ELSE [tcd EXCEPT !.pc = "returned", !.err = "nil", !.dir.kind = "dir",
                                !.made = @ + 1]
    /\ UNCHANGED <<PipelineVars, concat, cfg>>

\* f, fErr := os.OpenFile(dir, os.O_RDWR, 0): when it fails "return err",
\* and err is the error of os.Stat, which is nil here
TcdOpen ==
    /\ tcd.pc = "open"
    /\ tcd' = IF ~tcd.dir.openRW
              THEN [tcd EXCEPT !.pc = "returned"]
              ELSE IF tcd.empty
              THEN [tcd EXCEPT !.pc = "readdir"]
              ELSE [tcd EXCEPT !.pc = "returned"]
    /\ UNCHANGED <<PipelineVars, concat, cfg>>

\* _, dirErr := f.Readdirnames(1): anything but io.EOF is an entry
TcdReaddir ==
    /\ tcd.pc = "readdir"
    /\ tcd' = IF tcd.entries > 0
              THEN [tcd EXCEPT !.pc = "returned", !.err = "nonEmpty"]
              ELSE [tcd EXCEPT !.pc = "returned"]
    /\ UNCHANGED <<PipelineVars, concat, cfg>>

\* the call has returned and TryCreateDir is called again with the same
\* arguments, nothing else having touched the filesystem: a directory the
\* first call made has no entry, and opens for writing or does not
TcdAgain ==
    /\ tcd.pc = "returned"
    /\ tcd.call = 1
    /\ \E b \in BOOLEAN :
         LET now == IF tcd.made = 1 THEN [tcd.dir EXCEPT !.openRW = b] ELSE tcd.dir
         IN  /\ tcd.made = 0 => b
             /\ tcd' = [tcd EXCEPT !.pc = "stat", !.call = 2,
                                   !.first = [err |-> tcd.err, made |-> tcd.made],
                                   !.err = "unset", !.made = 0,
                                   !.given = now, !.dir = now,
                                   !.entries = IF tcd.made = 1 THEN 0 ELSE @]
    /\ UNCHANGED <<PipelineVars, concat, cfg>>

TcdNext ==
    \/ TcdAgain
    \/ TcdStat
    \/ TcdParent
    \/ TcdMkdir
    \/ TcdOpen
    \/ TcdReaddir

\* a call of TryCreateDir on its own, while no pipeline runs
TcdInit ==
    /\ NotCalled
    /\ concat = ConcatIdle
    /\ cfg = CfgIdle
    /\ tcd \in TcdCalls

TcdSpec == TcdInit /\ [][TcdNext]_vars

\* ------------------------------------------- ParseConfig, step by step
\* the data sources a configuration file lists, at most
MaxSources == 2

\* the values of the data source of test1.yaml
TestName == "test_name"
TestThreads == 6
TestManualPath == "/a/b"

\* the keys an item of data_sources may carry
Keys == {"name", "threads", "manual_path", "log_type"}

\* a mutant of KeyOf: the tags of the fields are not looked at
KeyOfUntagged(field) ==
    CASE field = "Name" -> "name"
      [] field = "Threads" -> "threads"
      [] field = "ManualPath" -> "manualpath"
      [] field = "Type" -> "type"

\* the key yaml.Unmarshal reads a field of DataSource from: the tag of the
\* field, or the name of the field in lower case
KeyOf(field) ==
    CASE field = "Name" -> "name"
      [] field = "Threads" -> "threads"
      [] field = "ManualPath" -> "manual_path"
      [] field = "Type" -> "log_type"

\* the items of data_sources: each carries some of the keys
Items ==
    {[k \in K |-> full[k]] :
        full \in [name : {TestName}, threads : {TestThreads},
                  manual_path : {TestManualPath}, log_type : {"zeek"}],
        K \in SUBSET Keys}

\* the value of the key, or the zero value of the field
Get(item, key, zero) == IF key \in DOMAIN item THEN item[key] ELSE zero

\* yaml.Unmarshal of one item into a DataSource
Decode(item) ==
    [Name |-> Get(item, KeyOf("Name"), ""),
     Threads |-> Get(item, KeyOf("Threads"), 0),
     ManualPath |-> Get(item, KeyOf("ManualPath"), ""),
     Type |-> Get(item, KeyOf("Type"), "")]

\* yaml.Unmarshal(configBuffer, &configData): a document that does not
\* parse leaves configData as it was and is an error
Unmarshal(buffer) ==
    IF buffer.kind = "malformed"
    THEN [configData |-> [DataSources |-> << >>], err |-> "yaml"]
    ELSE [configData |->
             [DataSources |-> [i \in DOMAIN buffer.items |-> Decode(buffer.items[i])]],
          err |-> "nil"]

\* configBuffer, err := ioutil.ReadFile(filepath): no bytes and an error
\* when the file cannot be read
CfgReadFile ==
    /\ cfg.pc = "read"
    /\ cfg' = IF cfg.file.kind = "missing"
              THEN [cfg EXCEPT !.pc = "unmarshal", !.err = "read",
                               !.configBuffer = [kind |-> "empty", items |-> << >>]]
              ELSE [cfg EXCEPT !.pc = "unmarshal", !.err = "nil",
                               !.configBuffer = cfg.file]
    /\ UNCHANGED <<PipelineVars, concat, tcd>>

\* err = yaml.Unmarshal(configBuffer, &configData); return configData, err
CfgUnmarshal ==
    /\ cfg.pc = "unmarshal"
    /\ LET r == Unmarshal(cfg.configBuffer)
       IN  cfg' = [cfg EXCEPT !.pc = "returned", !.configData = r.configData,
                              !.err = r.err]
    /\ UNCHANGED <<PipelineVars, concat, tcd>>

CfgNext ==
    \/ CfgReadFile
    \/ CfgUnmarshal

\* a call of ParseConfig on its own, while no pipeline runs: on a file
\* that is missing, on one that is no YAML, and on well-formed ones
CfgInit ==
    /\ NotCalled
    /\ concat = ConcatIdle
    /\ tcd = TcdIdle
    /\ \E kind \in {"missing", "malformed", "ok"}, n \in 0 .. MaxSources :
         \E items \in [1 .. n -> Items] :
            /\ kind # "ok" => n = 0
            /\ cfg = [CfgIdle EXCEPT !.pc = "read",
                                     !.file = [kind |-> kind, items |-> items]]

CfgSpec == CfgInit /\ [][CfgNext]_vars

\* ------------------------------------------------------------- barriers
\* sync.WaitGroup.Wait returns once the counter is zero
\* a mutant of WaitReturns: Wait does not block
WaitReturnsAtOnce(n) == TRUE

WaitReturns(n) == n = 0

\* a mutant of WgAdd: each unit is registered twice
WgAddTwice(n, k) == n + 2 * k

\* a mutant of WgAdd: the units are not registered
WgAddNothing(n, k) == n

\* sync.WaitGroup.Add(k), k times Add(1)
WgAdd(n, k) == n + k

\* a mutant of WgDone: the barrier is signalled twice
WgDoneTwice(n) == n - 2

\* sync.WaitGroup.Done()
WgDone(n) == n - 1

\* a mutant of Increment: the unit is counted twice
IncrementTwice(bar) == [bar EXCEPT !.current = @ + 2]

\* a mutant of Increment: the bar is left as it is
IncrementNothing(bar) == bar

\* pb.ProgressBar.Increment()
Increment(bar) == [bar EXCEPT !.current = @ + 1]

\* a mutant of SetTotal: the count of tasks done starts again
SetTotalReset(bar, total) == [bar EXCEPT !.total = total, !.current = 0]

\* pb.ProgressBar.SetTotal(total)
SetTotal(bar, total) == [bar EXCEPT !.total = total]

\* ------------------------------------------------------- pipeline driver
\* the loop condition of the days
DayCond(date) == date <= endTime

\* the loop condition of the hours of a day
HourCond(date, time) == time < date + HoursPerDay /\ time <= endTime

\* the head of the day loop: a fresh barrier and a fresh list for the day
EnterDay(date) ==
    IF DayCond(date)
    THEN /\ pc' = "iterHour"
         /\ wgDate' = [d \in DOMAIN wgDate \cup {date} |-> IF d = date THEN 0 ELSE wgDate[d]]
    ELSE /\ pc' = "await"
         /\ wgDate' = wgDate

\* ParseLogs up to the first day: TryCreateDir, whose error is only
\* printed, the iterators and the progress bars
Start ==
    /\ pc = "start"
    /\ dirErr' = TryCreateDirErr(outDir, HasEntries(outDir, files), TRUE)
    /\ outDir' = TryCreateDirAfter(outDir)
    /\ curDate' = Truncate(startTime)
    /\ curTime' = startTime
    /\ dayBar' = [total |-> DayCount(startTime, endTime), current |-> 0]
    /\ taskBar' = [total |-> taskCount, current |-> 0]
    /\ EnterDay(Truncate(startTime))
    /\ UNCHANGED <<threads, concat, tcd, cfg, startTime, endTime, finalMode, handler, files,
                   stdout, taskCount, tempFiles, outputFiles, wgAll, tasks,
                   aggs, globErrs, globbed>>

\* how often the hour was globbed
GlobCount(h) == Cardinality({i \in DOMAIN globbed : globbed[i] = h})

\* the pattern of the current hour is malformed: filepath.Glob returned
\* ErrBadPattern for it, and does so every time it is asked again
GlobFailed == globErrs > 0

\* the hour loop on a glob error: logged, and "continue" without advancing
\* curTime (the history keeps the first two globs of the hour)
IterHourGlobError ==
    /\ pc = "iterHour"
    /\ HourCond(curDate, curTime)
    /\ globErrs' = IF globErrs = 1 THEN 2 ELSE 1
    /\ globbed' = IF GlobCount(curTime) < 2 THEN Append(globbed, curTime) ELSE globbed
    /\ UNCHANGED <<threads, concat, tcd, cfg, startTime, endTime, finalMode, handler, outDir,
                   files, stdout, pc, dirErr, curDate, curTime, taskCount,
                   tempFiles, outputFiles, wgAll, wgDate, tasks, aggs, dayBar,
                   taskBar>>

\* a mutant of NewTasks: the last match of the hour is left out
NewTasksButLast(date, time, matches) ==
    [i \in 1 .. (Len(matches) - 1) |->
        [day |-> date, ts |-> time, suffix |-> matches[i],
         out |-> TempPath(time, matches[i]), pc |-> "queued", outcome |-> "none",
         artifact |-> "none"]]

\* a mutant of NewTasks: the matches are walked from the last to the first
NewTasksBackwards(date, time, matches) ==
    [i \in 1 .. Len(matches) |->
        [day |-> date, ts |-> time, suffix |-> matches[Len(matches) + 1 - i],
         out |-> TempPath(time, matches[Len(matches) + 1 - i]), pc |-> "queued",
         outcome |-> "none", artifact |-> "none"]]

\* logHandler(logFile, outputFileTemp, curTime, &wgDate, taskBar) for the
\* matches of the hour: wgDate.Add(1) and the go statement of each
NewTasks(date, time, matches) ==
    [i \in 1 .. Len(matches) |->
        [day |-> date, ts |-> time, suffix |-> matches[i],
         out |-> TempPath(time, matches[i]), pc |-> "queued", outcome |-> "none",
         artifact |-> "none"]]

\* one pass of the hour loop with a glob that returns its matches
IterHourDispatch ==
    /\ pc = "iterHour"
    /\ HourCond(curDate, curTime)
    /\ ~GlobFailed
    /\ \E S \in SUBSET Suffixes :
        /\ Len(tasks) + Cardinality(S) <= MaxTasks
        /\ LET matches == GlobOrder(S)
               new == NewTasks(curDate, curTime, matches)
           IN  /\ taskCount' = taskCount + Len(matches)
               /\ taskBar' = SetTotal(taskBar, taskCount + Len(matches))
               /\ tempFiles' = tempFiles \o [i \in 1 .. Len(new) |-> new[i].out]
               /\ tasks' = tasks \o new
               /\ wgDate' = [wgDate EXCEPT ![curDate] = WgAdd(@, Len(matches))]
    /\ curTime' = curTime + 1
    /\ globbed' = Append(globbed, curTime)
    /\ UNCHANGED <<threads, concat, tcd, cfg, startTime, endTime, finalMode, handler, outDir,
                   files, stdout, pc, dirErr, curDate, outputFiles, wgAll, aggs,
                   dayBar, globErrs>>

\* a mutant of FreshList: the list of the day before is carried on
StaleList == tempFiles

\* "var tempFiles []string" in the body of the day loop: each day starts
\* with a list of its own, which is empty
FreshList == << >>

\* the end of a day: wgAll.Add(1), the day file is named and its Day
\* Aggregator dispatched, then the next day (the field after of an
\* aggregator keeps how many Task Runners were dispatched before it)
EndDay ==
    /\ pc = "iterHour"
    /\ ~HourCond(curDate, curTime)
    /\ wgAll' = WgAdd(wgAll, 1)
    /\ outputFiles' = Append(outputFiles, DayPath(curDate))
    /\ aggs' = [d \in DOMAIN aggs \cup {curDate} |->
                  IF d = curDate
                  THEN [pc |-> "wait", inputFiles |-> tempFiles,
                        outputFile |-> DayPath(curDate), warned |-> FALSE,
                        e |-> "unset", summary |-> "none",
                        after |-> Len(tasks)]
                  ELSE aggs[d]]
    /\ curDate' = curDate + HoursPerDay
    /\ tempFiles' = FreshList
    /\ EnterDay(curDate + HoursPerDay)
    /\ UNCHANGED <<threads, concat, tcd, cfg, startTime, endTime, finalMode, handler, outDir,
                   files, stdout, dirErr, curTime, taskCount, tasks,
                   dayBar, taskBar, globErrs, globbed>>

\* ----------------------------------------------------------- task runner
\* the line the filter writes for an input file (the field artifact of a
\* task keeps what the task left at its path: nothing, the empty file
\* os.Create made, or the output of the filter)
LineOf(t) == [src |-> t.out, n |-> 1, size |-> 1, nl |-> TRUE]

\* fmt.Printf("ERROR (%s): %s\n", curTime.Format(...), err): a message on
\* the standard output of the process (of its text only "ERROR" is kept)
Printf(out, failure, time) == Append(out, [err |-> "ERROR"])

\* the goroutine of runCommand up to the start of the filter: os.Open,
\* gzip.NewReader, os.Create; the goroutine of runScript starts the script
TaskStart(i) ==
    /\ tasks[i].pc = "queued"
    /\ IF handler = "runCommand"
       THEN \E o \in {"openFail", "gzipFail", "opened"} :
              IF o # "opened"
              THEN /\ tasks' = [tasks EXCEPT ![i].pc = "signal", ![i].outcome = o]
                   /\ files' = files
                   /\ stdout' = Printf(stdout, o, tasks[i].ts)
                   /\ taskBar' = Increment(taskBar)
              ELSE IF CanCreate(outDir)
              THEN /\ tasks' = [tasks EXCEPT ![i].pc = "running", ![i].artifact = "empty"]
                   /\ files' = Put(files, tasks[i].out, << >>)
                   /\ stdout' = stdout
                   /\ taskBar' = taskBar
              ELSE /\ tasks' = [tasks EXCEPT ![i].pc = "signal", ![i].outcome = "createFail"]
                   /\ files' = files
                   /\ stdout' = Printf(stdout, "createFail", tasks[i].ts)
                   /\ taskBar' = Increment(taskBar)
       ELSE /\ tasks' = [tasks EXCEPT ![i].pc = "running"]
            /\ files' = files
            /\ stdout' = stdout
            /\ taskBar' = taskBar
    /\ UNCHANGED <<threads, concat, tcd, cfg, startTime, endTime, finalMode, handler, outDir,
                   pc, dirErr, curDate, curTime, taskCount, tempFiles,
                   outputFiles, wgAll, wgDate, aggs, dayBar,
                   globErrs, globbed>>

\* the external program exits: with success its output is the artifact,
\* with a failure the artifact runCommand created stays as it is, and a
\* failed script leaves none
TaskProcExit(i) ==
    /\ tasks[i].pc = "running"
    /\ \E o \in {"ok", "runFail"} :
        IF o = "ok" /\ CanCreate(outDir)
           /\ (handler = "runScript" \/ tasks[i].out \in DOMAIN files)
        THEN /\ tasks' = [tasks EXCEPT ![i].pc = "signal", ![i].outcome = o,
                                       ![i].artifact = "full"]
             /\ files' = Put(files, tasks[i].out, <<LineOf(tasks[i])>>)
        ELSE /\ tasks' = [tasks EXCEPT ![i].pc = "signal", ![i].outcome = o]
             /\ files' = files
    /\ taskBar' = Increment(taskBar)
    /\ UNCHANGED <<threads, concat, tcd, cfg, startTime, endTime, finalMode, handler, outDir,
                   stdout, pc, dirErr, curDate, curTime, taskCount, tempFiles,
                   outputFiles, wgAll, wgDate, aggs, dayBar,
                   globErrs, globbed>>

\* wgDate.Done(), the last deferred call of the goroutine
TaskDone(i) ==
    /\ tasks[i].pc = "signal"
    /\ tasks' = [tasks EXCEPT ![i].pc = "finished"]
    /\ wgDate' = [wgDate EXCEPT ![tasks[i].day] = WgDone(@)]
    /\ UNCHANGED <<threads, concat, tcd, cfg, startTime, endTime, finalMode, handler, outDir,
                   files, stdout, pc, dirErr, curDate, curTime, taskCount,
                   tempFiles, outputFiles, wgAll, aggs, dayBar, taskBar,
                   globErrs, globbed>>

\* --------------------------------------------------------- day aggregator
\* a mutant of NoInputFiles: the empty list is concatenated like any other
NoInputFilesNever(inputFiles) == FALSE

\* "if no input files, ignore": len(inputFiles) == 0
NoInputFiles(inputFiles) == Len(inputFiles) = 0


\* a mutant of Summary: every day is summarised as a success
SummaryOfSuccess(failure) == "SUCCESS"

\* the summary of the day: FAIL when failure is set, SUCCESS otherwise
Summary(failure) == IF failure THEN "FAIL" ELSE "SUCCESS"

\* a mutant of Barrier: one barrier is shared by the days
BarrierOfAll(d) == IF \E x \in DOMAIN wgDate : wgDate[x] > 0 THEN 1 ELSE 0

\* the barrier the Day Aggregator of day d is handed: &wgDate, the variable
\* the pass of the day loop declared
Barrier(d) == wgDate[d]

\* ConcatFilesParallelByDate from wgDate.Wait() to the summary it logs
\* and the deferred bar.Increment()
AggConcat(d) ==
    /\ aggs[d].pc = "wait"
    /\ WaitReturns(Barrier(d))
    /\ IF NoInputFiles(aggs[d].inputFiles)
       THEN /\ aggs' = [aggs EXCEPT ![d].pc = "signal", ![d].warned = TRUE,
                                    ![d].summary = Summary(FALSE)]
            /\ files' = files
       ELSE /\ aggs' = [aggs EXCEPT ![d].pc = "signal",
                           ![d].inputFiles = IF CanCreate(outDir)
                                             THEN SortStrings(@) ELSE @,
                           ![d].e = ConcatFilesErr(outDir),
                           ![d].summary = Summary(ConcatFilesErr(outDir) # "nil")]
            /\ files' = ConcatFilesAfter(outDir, files, aggs[d].inputFiles,
                                         aggs[d].outputFile, TRUE)
    /\ dayBar' = Increment(dayBar)
    /\ UNCHANGED <<threads, concat, tcd, cfg, startTime, endTime, finalMode, handler, outDir,
                   stdout, pc, dirErr, curDate, curTime, taskCount, tempFiles,
                   outputFiles, wgAll, wgDate, tasks, taskBar,
                   globErrs, globbed>>

\* wgAll.Done(), the last deferred call
AggDone(d) ==
    /\ aggs[d].pc = "signal"
    /\ aggs' = [aggs EXCEPT ![d].pc = "finished"]
    /\ wgAll' = WgDone(wgAll)
    /\ UNCHANGED <<threads, concat, tcd, cfg, startTime, endTime, finalMode, handler, outDir,
                   files, stdout, pc, dirErr, curDate, curTime, taskCount,
                   tempFiles, outputFiles, wgDate, tasks, dayBar, taskBar,
                   globErrs, globbed>>

\* --------------------------------------------------- await all, finalize
\* wgAll.Wait()
AwaitAll ==
    /\ pc = "await"
    /\ WaitReturns(wgAll)
    /\ pc' = "finalize"
    /\ UNCHANGED <<threads, concat, tcd, cfg, startTime, endTime, finalMode, handler, outDir,
                   files, stdout, dirErr, curDate, curTime, taskCount,
                   tempFiles, outputFiles, wgAll, wgDate, tasks, aggs, dayBar,
                   taskBar, globErrs, globbed>>

\* os.Remove(resolvedOutDir): removes a file, or a directory that is empty
RemoveDir(dir, fs) ==
    IF dir.kind = "file" \/ (dir.kind = "dir" /\ ~HasEntries(dir, fs))
    THEN [dir EXCEPT !.kind = "absent"]
    ELSE dir

\* a mutant of Branch: without the stream, the single file is written
BranchSingleByDefault(writeStdout, singleFile) ==
    IF writeStdout THEN "stream" ELSE "single"

\* a mutant of Branch: the single file is looked at first
BranchSingleFirst(writeStdout, singleFile) ==
    IF singleFile THEN "single" ELSE IF writeStdout THEN "stream" ELSE "none"

\* "if writeStdout { ... } else if singleFile { ... }": the branch taken
Branch(writeStdout, singleFile) ==
    IF writeStdout THEN "stream" ELSE IF singleFile THEN "single" ELSE "none"

\* the end of ParseLogs: the stream, the single file, or nothing; the two
\* flags are parameters read here and nowhere else, so they are drawn here
Finalize(writeStdout, singleFile) ==
    /\ pc = "finalize"
    /\ pc' = "done"
    /\ finalMode' = [read |-> TRUE, writeStdout |-> writeStdout, singleFile |-> singleFile]
    /\ IF Branch(writeStdout, singleFile) = "stream"
       THEN LET sorted == SortStrings(outputFiles)
                kept == RemoveAll(files, ConcatRemoved(files, sorted, TRUE))
            IN  /\ stdout' = stdout \o ConcatLines(files, sorted)
                /\ files' = kept
                /\ outputFiles' = sorted
                /\ outDir' = RemoveDir(outDir, kept)
       ELSE IF Branch(writeStdout, singleFile) = "single"
       THEN /\ files' = ConcatFilesAfter(outDir, files, outputFiles, FinalPath, TRUE)
            /\ outputFiles' = IF CanCreate(outDir) THEN SortStrings(outputFiles)
                              ELSE outputFiles
            /\ UNCHANGED <<stdout, outDir>>
       ELSE UNCHANGED <<stdout, files, outputFiles, outDir>>
    /\ UNCHANGED <<threads, concat, tcd, cfg, startTime, endTime, handler, dirErr,
                   curDate, curTime, taskCount, tempFiles, wgAll, wgDate,
                   tasks, aggs, dayBar, taskBar, globErrs, globbed>>

\* ------------------------------------------------------------------ Next
Driver ==
    \/ Start \/ IterHourGlobError \/ IterHourDispatch \/ EndDay \/ AwaitAll
    \/ \E ws, sf \in BOOLEAN : Finalize(ws, sf)

Task(i) == i \in DOMAIN tasks /\ (TaskStart(i) \/ TaskProcExit(i) \/ TaskDone(i))

Agg(d) == d \in DOMAIN aggs /\ (AggConcat(d) \/ AggDone(d))

Next ==
    \/ Start
    \/ IterHourGlobError
    \/ IterHourDispatch
    \/ EndDay
    \/ AwaitAll
    \/ \E ws, sf \in BOOLEAN : Finalize(ws, sf)
    \/ \E i \in DOMAIN tasks : TaskStart(i)
    \/ \E i \in DOMAIN tasks : TaskProcExit(i)
    \/ \E i \in DOMAIN tasks : TaskDone(i)
    \/ \E d \in DOMAIN aggs : AggConcat(d)
    \/ \E d \in DOMAIN aggs : AggDone(d)

Spec == Init /\ [][Next]_vars

\* the hours and the days a run can reach
AllHours == 0 .. (HoursPerDay + MaxSpan + 1)

AllDays == {Truncate(h) : h \in AllHours}

\* the Go scheduler runs every goroutine that can run, and every external
\* filter process is assumed to exit
FairSpec ==
    /\ Spec
    /\ WF_vars(Driver)
    /\ \A i \in 1 .. MaxTasks : WF_vars(Task(i))
    /\ \A d \in AllDays : WF_vars(Agg(d))

\* ----------------------------------------------------------------- claims
\* the units of a day
TasksOf(d) == {i \in DOMAIN tasks : tasks[i].day = d}

\* the dispatch loop is over
Dispatched == pc \in {"await", "finalize", "done"}

\* C1: once dispatch has begun, whatever discovery, the tasks and the
\* concatenations do, the driver eventually passes the global barrier, runs
\* Finalize and returns
C1_GlobalCompletion == <>(pc = "done")

\* without a glob error the run does complete: the glob error is the one
\* way not to
CompletesWithoutGlobError == [](globErrs = 0) => <>(pc = "done")

\* the task left an artifact behind: runCommand creates it before it starts
\* the filter, a script writes it when it succeeds
LeftArtifact(t) == t.artifact # "none"

\* C2: a Day Aggregator does not start concatenating before every Task
\* Runner of its day has finished, so every artifact a task of the day
\* produces exists when the concatenation of the day begins
C2_PerDayBarrier ==
    \A d \in DOMAIN aggs :
        /\ aggs[d].pc # "wait" => \A i \in TasksOf(d) : tasks[i].pc = "finished"
        /\ (aggs[d].pc = "wait" /\ \A i \in TasksOf(d) : tasks[i].pc = "finished")
              => \A i \in TasksOf(d) :
                    LeftArtifact(tasks[i]) => tasks[i].out \in DOMAIN files

\* C2 happens: a day with a task that wrote its artifact has been concatenated
C2_Witness ==
    \E d \in DOMAIN aggs :
        /\ aggs[d].pc # "wait"
        /\ \E i \in TasksOf(d) : tasks[i].outcome = "ok"

\* the day file a concatenation that succeeded wrote
WroteDayFile(d) == aggs[d].summary = "SUCCESS" /\ ~aggs[d].warned

\* C3: the driver does not enter Finalize before every dispatched Day
\* Aggregator has finished, so every day file that is written is complete
\* when the final concatenation reads it
C3_GlobalBarrier ==
    pc \in {"finalize", "done"} =>
        \A d \in DOMAIN aggs :
            /\ aggs[d].pc = "finished"
            /\ (pc = "finalize" /\ WroteDayFile(d)) => aggs[d].outputFile \in DOMAIN files

\* C3 happens: the driver is in Finalize with a day file written
C3_Witness ==
    /\ pc = "finalize"
    /\ \E d \in DOMAIN aggs : WroteDayFile(d) /\ aggs[d].outputFile \in DOMAIN files

\* the calendar days from the day of start to the day of end, inclusive
InclusiveDays(s, e) == (Truncate(e) - Truncate(s)) \div HoursPerDay + 1

\* C4: for every range, the number of Day Aggregators ParseLogs dispatches
\* is the inclusive number of calendar days of the range: the run comes to
\* that number of aggregators and stays there
C4_AggregatorPerDay ==
    <>[](Cardinality(DOMAIN aggs) = InclusiveDays(startTime, endTime))

\* there are never more aggregators than days, one per day file named, and
\* the number is that of the days whenever the day loop is left
C4_WhenDispatched ==
    /\ Cardinality(DOMAIN aggs) = Len(outputFiles)
    /\ Len(outputFiles) <= InclusiveDays(startTime, endTime)
    /\ Dispatched => Len(outputFiles) = InclusiveDays(startTime, endTime)

\* but for the glob error, the number of aggregators is reached
C4_WithoutGlobError == [](globErrs = 0) => C4_AggregatorPerDay

\* the dispatch of a range of two days is over
C4_TwoDays ==
    /\ Dispatched
    /\ InclusiveDays(startTime, endTime) = 2
    /\ Cardinality(DOMAIN aggs) = 2

\* C5: a range with start = end globs one hour slot, the hour of start, and
\* dispatches one Day Aggregator, that of the day of start
C5_SingleHour ==
    startTime = endTime =>
        <>[](Range(globbed) = {startTime} /\ DOMAIN aggs = {Truncate(startTime)})

\* a range with start = end never globs another hour nor dispatches a second
\* aggregator, and has one of each whenever the day loop is left
C5_WhenDispatched ==
    startTime = endTime =>
        /\ Range(globbed) \subseteq {startTime}
        /\ Len(outputFiles) <= 1
        /\ Dispatched => Range(globbed) = {startTime} /\ Len(outputFiles) = 1
                         /\ DOMAIN aggs = {Truncate(startTime)}

\* but for the glob error, the hour and its aggregator are reached
C5_WithoutGlobError == [](globErrs = 0) => C5_SingleHour

\* the run of a range of one hour is done
C5_OneHourDone == startTime = endTime /\ pc = "done" /\ globbed = <<startTime>>

\* C6: the hours globbed are start, start + 1h, ..., end, each once and in
\* increasing order, and the matches of an hour go to the aggregator of the
\* day of that hour
C6_HoursGlobbed ==
    /\ \A i \in DOMAIN globbed : globbed[i] = startTime + i - 1
    /\ Range(globbed) \subseteq startTime .. endTime
    /\ Dispatched => Range(globbed) = startTime .. endTime
    /\ \A i \in DOMAIN tasks :
        /\ tasks[i].day = Truncate(tasks[i].ts)
        /\ tasks[i].ts \in startTime .. endTime
    /\ \A d \in DOMAIN aggs :
        Range(aggs[d].inputFiles) = {tasks[i].out : i \in TasksOf(d)}

\* but for the glob error, the hours are globbed as C6 has it
C6_WithoutGlobError == globErrs = 0 => C6_HoursGlobbed

\* C7: when TryCreateDir fails, no Task Runner and no Day Aggregator is
\* dispatched, and dispatch begins only on a directory that was empty or
\* has just been created
C7_DirFailureIsFatal ==
    /\ dirErr \notin {"unset", "nil"} => tasks = << >> /\ DOMAIN aggs = {}
    /\ (tasks # << >> \/ DOMAIN aggs # {}) => outDir.kind = "dir" /\ ~outDir.foreign

\* the tasks that have signalled their progress, and those that still hold
\* their day's barrier
Counted == {i \in DOMAIN tasks : tasks[i].pc \in {"signal", "finished"}}

Holding(d) == {i \in TasksOf(d) : tasks[i].pc # "finished"}

\* C8: on every path (open, decompress, create or run failure, success) a
\* Task Runner signals its day's barrier once and increments the task
\* progress once: the bar counts the tasks past their work, a barrier the
\* tasks of its day that have not finished
C8_TaskSignalsOnce ==
    /\ taskBar.current = Cardinality(Counted)
    /\ \A d \in DOMAIN wgDate : wgDate[d] = Cardinality(Holding(d))
    /\ \A i \in DOMAIN tasks : i \in Counted <=> tasks[i].outcome # "none"
    /\ \A i \in DOMAIN tasks : tasks[i].day \in DOMAIN wgDate

\* C8 happens: a task that failed early and a task that succeeded have both
\* finished
C8_Witness ==
    \E i, j \in DOMAIN tasks :
        /\ tasks[i].pc = "finished" /\ tasks[i].outcome \in {"openFail", "gzipFail", "createFail"}
        /\ tasks[j].pc = "finished" /\ tasks[j].outcome \in {"ok", "runFail"}

\* the lines a task left in its artifact
ArtifactLines(t) == IF t.artifact = "full" THEN <<LineOf(t)>> ELSE << >>

\* the tasks of a set in the order of their artifact paths
RECURSIVE InPathOrder(_)
InPathOrder(S) ==
    IF S = {} THEN << >>
    ELSE LET i == CHOOSE x \in S : \A y \in S : ~PathLess(tasks[y].out, tasks[x].out)
         IN  <<i>> \o InPathOrder(S \ {i})

RECURSIVE LinesOf(_)
LinesOf(order) ==
    IF order = << >> THEN << >>
    ELSE ArtifactLines(tasks[Head(order)]) \o LinesOf(Tail(order))

\* what the day file of a day holds, from the outcomes of its tasks alone
ExpectedDay(d) == LinesOf(InPathOrder(TasksOf(d)))

\* the days in date order
RECURSIVE InDateOrder(_)
InDateOrder(D) ==
    IF D = {} THEN << >>
    ELSE LET d == CHOOSE x \in D : \A y \in D : x <= y
         IN  <<d>> \o InDateOrder(D \ {d})

RECURSIVE DayLines(_)
DayLines(order) ==
    IF order = << >> THEN << >>
    ELSE (IF WroteDayFile(Head(order)) THEN ExpectedDay(Head(order)) ELSE << >>)
         \o DayLines(Tail(order))

\* what the final output holds, from the outcomes of the tasks alone
ExpectedFinal == DayLines(InDateOrder(DOMAIN aggs))

\* a message of a task on the standard output, not a line of a file
IsMessage(l) == "err" \in DOMAIN l

\* the lines ConcatToStdout wrote to the standard output
Streamed(out) ==
    LET IsLine(l) == ~IsMessage(l) IN SelectSeq(out, IsLine)

\* C9: the content of each day file and of the final output is fixed by the
\* outcomes of the tasks and the order of the artifact paths, whatever the
\* order in which the units finished
C9_ContentIsOrderIndependent ==
    /\ \A d \in DOMAIN aggs :
        (aggs[d].pc # "wait" /\ WroteDayFile(d) /\ pc # "done")
            => /\ aggs[d].outputFile \in DOMAIN files
               /\ files[aggs[d].outputFile] = ExpectedDay(d)
    /\ (pc = "done" /\ finalMode.writeStdout) => Streamed(stdout) = ExpectedFinal
    /\ (pc = "done" /\ ~finalMode.writeStdout /\ finalMode.singleFile /\ CanCreate(outDir))
            => FinalPath \in DOMAIN files /\ files[FinalPath] = ExpectedFinal

\* C9 happens: a day file holds the lines of two tasks, which were
\* dispatched in the other order
C9_Witness ==
    \E d \in DOMAIN aggs :
        /\ aggs[d].outputFile \in DOMAIN files
        /\ Len(files[aggs[d].outputFile]) = 2
        /\ \E i, j \in TasksOf(d) : i < j /\ PathLess(tasks[j].out, tasks[i].out)

\* the aggregators past their concatenation
Aggregated == {d \in DOMAIN aggs : aggs[d].pc \in {"signal", "finished"}}

\* C10: a day without a match still gets its Day Aggregator, which logs a
\* warning, creates no day file, is not reported as a failure, and signals
\* the global barrier and increments the day progress like any other
C10_EmptyDay ==
    /\ \A d \in DOMAIN aggs :
        (TasksOf(d) = {} /\ aggs[d].pc # "wait")
            => /\ aggs[d].warned
               /\ aggs[d].summary = "SUCCESS"
               /\ aggs[d].outputFile \notin DOMAIN files
    /\ \A d \in DOMAIN aggs : TasksOf(d) = {} <=> aggs[d].inputFiles = << >>
    /\ dayBar.current = Cardinality(Aggregated)
    /\ wgAll = Cardinality({d \in DOMAIN aggs : aggs[d].pc # "finished"})
    /\ Dispatched =>
          \A h \in startTime .. endTime : Truncate(h) \in DOMAIN aggs

\* C10 happens: the aggregator of a day without a match has finished, next
\* to a day that has a day file
C10_Witness ==
    \E d, e \in DOMAIN aggs :
        /\ TasksOf(d) = {} /\ aggs[d].pc = "finished" /\ aggs[d].warned
        /\ e # d /\ aggs[e].outputFile \in DOMAIN files

\* ----------------------------------------------- claims on the final mode
\* the day files that are left in the output directory
DayFilesLeft == {d \in DOMAIN aggs : aggs[d].outputFile \in DOMAIN files}

\* C15: in single-file mode, after ParseLogs returns the output directory
\* holds the final file <logType>.json with the contents of all the day
\* files in date order, and no day file that was folded remains: the final
\* file is the one file of the directory
C15_SingleFile ==
    (pc = "done" /\ ~finalMode.writeStdout /\ finalMode.singleFile /\ CanCreate(outDir))
        => /\ DOMAIN files = {FinalPath}
           /\ files[FinalPath] = ExpectedFinal
           /\ DayFilesLeft = {}

\* C15 happens: a run of two days in single-file mode is done, the lines of
\* both days in the final file
C15_Witness ==
    /\ pc = "done" /\ ~finalMode.writeStdout /\ finalMode.singleFile
    /\ FinalPath \in DOMAIN files
    /\ \E d, e \in DOMAIN aggs :
          /\ d < e
          /\ files[FinalPath] = ExpectedDay(d) \o ExpectedDay(e)
          /\ ExpectedDay(d) # << >> /\ ExpectedDay(e) # << >>

\* C16: in stream mode, after ParseLogs returns the standard output holds
\* the concatenation of all the day files in date order, every day file is
\* deleted and the output directory no longer exists
C16_Stream ==
    (pc = "done" /\ finalMode.writeStdout)
        => /\ stdout = ExpectedFinal
           /\ DayFilesLeft = {}
           /\ outDir.kind = "absent"

\* the run was given an output directory to create, or an empty one, and no
\* task has written a message to the standard output
OnFreshDirectory == dirErr = "nil" /\ ~outDir.foreign

NoMessage == \A k \in DOMAIN stdout : ~IsMessage(stdout[k])

\* but for the directory that was not empty and the messages of the tasks,
\* the stream mode ends as C16 has it
C16_OnFreshDirectory == (OnFreshDirectory /\ NoMessage) => C16_Stream

\* a run of two days in stream mode on a fresh directory is done, the lines
\* of both days on the standard output
C16_TwoDaysStreamed ==
    /\ pc = "done" /\ finalMode.writeStdout /\ OnFreshDirectory /\ NoMessage
    /\ Len(stdout) = 2 /\ Cardinality(DOMAIN aggs) = 2
    /\ outDir.kind = "absent"

\* ---------------------------------------------- claims on the task runners
\* the external filter processes that are running
Running == {i \in DOMAIN tasks : tasks[i].pc = "running"}

\* C17: the number of external filter processes running at the same time
\* never exceeds the parallelism hint
C17_BoundedByThreads == Cardinality(Running) <= threads

\* C18: the failures of a task (open, decompress, create, run) are reported
\* through the log sink only, never on the standard output
C18_FailuresOnlyLogged == NoMessage

\* a task whose filter failed is reported through the log only
C18_RunFailureLogged ==
    \E i \in DOMAIN tasks : tasks[i].outcome = "runFail" /\ NoMessage

\* ------------------------------------------- claims on concatFilesToFd
\* the sources of the call that os.Open opens
Openable(c) == {p \in Range(c.given) : p \in DOMAIN c.fs0 /\ p \notin c.locked}

\* the lines concatFilesToFd writes when it is given the list g on the
\* files of the call c
ConcatOut(c, g) ==
    ConcatLines([p \in Openable(c) |-> c.fs0[p]], SortStrings(g))

\* C11: for any two orders of the same set of sources, the destination is
\* written the same content: what this call wrote is what the call with any
\* other order of its list writes
C11_PermutationInvariant ==
    concat.pc = "returned" =>
        \A g \in InputLists :
            Range(g) = Range(concat.given) => ConcatOut(concat, g) = concat.out

\* C11 happens: a call given two sources with lines, in the order that is
\* not that of their paths, has returned
C11_Witness ==
    /\ concat.pc = "returned"
    /\ Len(concat.given) = 2
    /\ PathLess(concat.given[2], concat.given[1])
    /\ \A p \in Range(concat.given) :
          p \in Openable(concat) /\ ScanLines(concat.fs0[p]) # << >>

\* a set of paths in their string order
RECURSIVE PathOrder(_)
PathOrder(S) ==
    IF S = {} THEN << >>
    ELSE LET p == CHOOSE x \in S : \A y \in S : ~PathLess(y, x)
         IN  <<p>> \o PathOrder(S \ {p})

\* every line of a file, each terminated by one newline
Terminated(lines) == [i \in DOMAIN lines |-> WriteString(lines[i])]

\* every line of every source of the list, in the order of the list
RECURSIVE AllLines(_, _)
AllLines(fs, order) ==
    IF order = << >> THEN << >>
    ELSE Terminated(fs[Head(order)]) \o AllLines(fs, Tail(order))

\* C12: after concatFilesToFd the destination holds exactly the lines of
\* every source that could be opened, the sources in the order of their
\* paths and the lines in the order of the source, each line terminated by
\* one newline; a source that could not be opened contributes nothing
C12_DestinationHoldsAllLines ==
    concat.pc = "returned" =>
        concat.out = AllLines(concat.fs0, PathOrder(Openable(concat)))

\* no source of the call has a line too long for the Scanner
NoLongLine(c) ==
    \A p \in Openable(c) : \A i \in DOMAIN c.fs0[p] : ~TooLong(c.fs0[p][i])

\* but for the lines too long for the Scanner, the destination is as C12
\* has it
C12_WithoutLongLines == NoLongLine(concat) => C12_DestinationHoldsAllLines

\* a call without a long line, with a last line without its newline and a
\* source that does not open, has returned
C12_ShortLines ==
    /\ concat.pc = "returned"
    /\ NoLongLine(concat)
    /\ Len(concat.out) = 2 * MaxLines
    /\ \E p \in Openable(concat) : ~concat.fs0[p][Len(concat.fs0[p])].nl

\* C13: with ignoreMissing a source that does not open is skipped, every
\* other source of the list is still concatenated, and deleted if that was
\* asked, and the call returns no error
C13_MissingIsSkipped ==
    (concat.pc = "returned" /\ concat.ignoreMissing) =>
        /\ concat.err = "nil"
        /\ concat.written = Openable(concat)
        /\ concat.out = ConcatLines(concat.fs0, PathOrder(Openable(concat)))
        /\ concat.deleteInputAfterRead =>
              \A p \in Openable(concat) : p \notin DOMAIN concat.fs

\* C13 happens: the first source of the sorted list was missing, the second
\* has been concatenated and deleted
C13_Witness ==
    /\ concat.pc = "returned"
    /\ concat.ignoreMissing /\ concat.deleteInputAfterRead
    /\ Len(concat.inputFiles) = 2
    /\ concat.inputFiles[1] \notin DOMAIN concat.fs0
    /\ concat.inputFiles[2] \in concat.written
    /\ concat.out # << >>

\* the sources the call has removed
Removed(c) == DOMAIN c.fs0 \ DOMAIN c.fs

\* the lines of the destination that come from a source
LinesFrom(out, p) ==
    LET FromP(l) == l.src = p IN SelectSeq(out, FromP)

\* C14: with deletion asked, a source is removed only once it has been read
\* through and its lines are in the destination, a source that does not
\* open is never removed, and when the fold is over no source that was
\* folded remains
C14_RemovedOnceWritten ==
    /\ \A p \in Removed(concat) :
          /\ concat.deleteInputAfterRead
          /\ p \in concat.written
          /\ LinesFrom(concat.out, p) = Terminated(concat.fs0[p])
    /\ \A p \in DOMAIN concat.fs0 \ Openable(concat) : p \notin Removed(concat)
    /\ (concat.pc = "returned" /\ concat.deleteInputAfterRead) =>
          \A p \in concat.written : p \in Removed(concat)

\* but for the lines too long for the Scanner, the sources are removed as
\* C14 has it
C14_WithoutLongLines == NoLongLine(concat) => C14_RemovedOnceWritten

\* a fold with deletion of two sources without a long line is over, next to
\* nothing: both are removed
C14_TwoRemoved ==
    /\ concat.pc = "returned"
    /\ NoLongLine(concat)
    /\ Cardinality(Removed(concat)) = 2

\* in the pipeline: when a Day Aggregator has written its day file no
\* artifact of the day remains, and after the final fold no day file
C14_InPipeline ==
    /\ \A d \in DOMAIN aggs :
          (aggs[d].pc # "wait" /\ WroteDayFile(d)) =>
              \A i \in TasksOf(d) : tasks[i].out \notin DOMAIN files
    /\ (pc = "done" /\ (finalMode.writeStdout \/ (finalMode.singleFile /\ CanCreate(outDir))))
          => \A d \in DOMAIN aggs : aggs[d].outputFile \notin DOMAIN files

\* ---------------------------------------------- claims on TryCreateDir
\* the call has returned on a directory that existed when it was called
ReturnedOnExisting == tcd.pc = "returned" /\ tcd.given.kind = "dir"

\* the call returns what ParseLogs takes TryCreateDir to return
TcdAgrees ==
    tcd.pc = "returned" =>
        /\ tcd.err = TryCreateDirErr(tcd.given, tcd.entries > 0, tcd.empty)
        /\ tcd.dir = TryCreateDirAfter(tcd.given)

\* C19: TryCreateDir(dir, empty = true) on an existing directory with at
\* least one entry returns an error, for every such directory
C19_NonEmptyIsAnError ==
    (ReturnedOnExisting /\ tcd.empty /\ tcd.entries > 0) => tcd.err # "nil"

\* where the directory opens for read-write, the entry is an error
C19_WhereOpenSucceeds ==
    (ReturnedOnExisting /\ tcd.empty /\ tcd.entries > 0 /\ tcd.given.openRW)
        => tcd.err = "nonEmpty"

\* C20: TryCreateDir on an existing directory that cannot be opened for
\* read-write returns an error
C20_UnwritableIsAnError ==
    (ReturnedOnExisting /\ ~tcd.given.openRW) => tcd.err # "nil"

\* C21: TryCreateDir creates at most one directory in a call and changes
\* nothing when it returns an error; on a path that is no directory it
\* returns the error of a conflict and changes nothing; on an absent path it
\* creates the directory only once the parent was found to be a directory.
C21_CreatesAtMostOnce ==
    tcd.pc # "idle" =>
        /\ tcd.made \in {0, 1}
        /\ tcd.made = 1 <=> tcd.dir # tcd.given
        /\ tcd.dir # tcd.given =>
              /\ tcd.given.kind = "absent"
              /\ tcd.given.parent \in {"dir", "dirNoMkdir"}
              /\ tcd.dir = [tcd.given EXCEPT !.kind = "dir"]
              /\ tcd.pc = "returned"
        /\ tcd.pc = "mkdir" => tcd.given.parent \in {"dir", "dirNoMkdir"}
        /\ (tcd.pc = "returned" /\ tcd.err # "nil") => tcd.dir = tcd.given
        /\ (tcd.pc = "returned" /\ tcd.given.kind = "file") =>
              tcd.err = "conflict" /\ tcd.dir = tcd.given

\* a call that created the directory under a parent that is one
C21_Created ==
    /\ tcd.pc = "returned"
    /\ tcd.given.kind = "absent"
    /\ tcd.given.parent = "dir"
    /\ tcd.dir.kind = "dir"
    /\ tcd.made = 1

\* a call that returned the error of a conflict
C21_Conflict ==
    /\ tcd.pc = "returned"
    /\ tcd.given.kind = "file"
    /\ tcd.err = "conflict"

\* ------------------------------------------------- claims on the task bar
\* C22: raising the total of the task bar never resets or lowers the count
\* of tasks done, however the driver's SetTotal and the Task Runners'
\* Increment interleave; and the total never goes down in a run.
C22_TotalKeepsDone ==
    [][/\ taskBar'.total >= taskBar.total
       /\ taskBar'.current >= taskBar.current
       /\ taskBar'.total # taskBar.total => taskBar'.current = taskBar.current]_vars

\* the total was raised for a later hour while a Task Runner of an earlier
\* hour was incrementing the bar: the task of the later hour is queued, the
\* one of the earlier hour is counted, and the count is kept
C22_RaisedOverDone ==
    \E i, j \in DOMAIN tasks :
        /\ tasks[i].ts < tasks[j].ts
        /\ i \in Counted
        /\ tasks[j].pc = "queued"
        /\ taskBar.current = Cardinality(Counted)
        /\ taskBar.current > 0
        /\ taskBar.total = Len(tasks)

\* ------------------------------------------------ claims on ParseConfig
\* the file of the call is well-formed YAML
WellFormed == cfg.file.kind = "ok"

\* C23: on a well-formed file ParseConfig returns a nil error and a Config
\* whose DataSources has one entry for each item of data_sources, in their
\* order, with Name, Threads and ManualPath read from the keys name,
\* threads and manual_path of the item.
C23_ConfigFromKeys ==
    (cfg.pc = "returned" /\ WellFormed) =>
        /\ cfg.err = "nil"
        /\ Len(cfg.configData.DataSources) = Len(cfg.file.items)
        /\ \A i \in DOMAIN cfg.file.items :
              LET item == cfg.file.items[i]
                  ds == cfg.configData.DataSources[i]
              IN  /\ "name" \in DOMAIN item => ds.Name = item["name"]
                  /\ "threads" \in DOMAIN item => ds.Threads = item["threads"]
                  /\ "manual_path" \in DOMAIN item => ds.ManualPath = item["manual_path"]
                  /\ "name" \notin DOMAIN item => ds.Name = ""
                  /\ "threads" \notin DOMAIN item => ds.Threads = 0
                  /\ "manual_path" \notin DOMAIN item => ds.ManualPath = ""

\* the case of TestParseConfig: test1.yaml and the Config it expects
C23_Test1 ==
    /\ cfg.pc = "returned"
    /\ WellFormed
    /\ Len(cfg.file.items) = 1
    /\ DOMAIN cfg.file.items[1] = {"name", "threads", "manual_path"}
    /\ cfg.configData =
         [DataSources |-> <<[Name |-> TestName, Threads |-> TestThreads,
                             ManualPath |-> TestManualPath, Type |-> ""]>>]
    /\ cfg.err = "nil"

\* ---------------------------------------------- claims on the glob error
\* C24: when the glob of an hour returns an error the driver logs it,
\* dispatches no task for the hour and goes on to the next hour: the hour
\* is behind curTime once the error is logged, and is not globbed again.
C24_GlobErrorSkipsHour ==
    GlobFailed =>
        /\ curTime > globbed[Len(globbed)]
        /\ \A h \in Range(globbed) : GlobCount(h) = 1
        /\ \A i \in DOMAIN tasks : tasks[i].ts # globbed[Len(globbed)]

\* -------------------------------------- claims on the Day Aggregators
\* the Task Runners of day d have all signalled the barrier of the day
DayDone(d) == \A i \in TasksOf(d) : tasks[i].pc = "finished"

\* C25: a Day Aggregator waits on the barrier of its own day only: once the
\* Task Runners of its day are done it can run, whatever the Task Runners
\* of other days do; and the driver is never held in the dispatch loop by
\* the tasks or the aggregation of a day.
C25_OwnBarrierOnly ==
    /\ \A d \in DOMAIN aggs :
          (aggs[d].pc = "wait" /\ DayDone(d)) => ENABLED AggConcat(d)
    /\ pc = "iterHour" => ENABLED (IterHourGlobError \/ IterHourDispatch \/ EndDay)

\* the Day Aggregator of a day has run to its end while a Task Runner of
\* an earlier day has not
C25_Overtaken ==
    \E d \in DOMAIN aggs, i \in DOMAIN tasks :
        /\ aggs[d].pc = "finished"
        /\ tasks[i].day < d
        /\ tasks[i].pc \in {"queued", "running"}

\* the Day Aggregator of a day has run to its end before the hours of the
\* next day are dispatched
C25_BeforeNextDay ==
    \E d \in DOMAIN aggs :
        /\ aggs[d].pc = "finished"
        /\ pc = "iterHour"
        /\ curDate > d
        /\ TasksOf(curDate) = {}

\* the path the Day Aggregator of day d took
AggPath(d) ==
    IF aggs[d].warned THEN "empty"
    ELSE IF aggs[d].e = "unset" THEN "waiting"
    ELSE IF aggs[d].e = "nil" THEN "success"
    ELSE "failed"

\* C26: on each of its paths (no artifact, a concatenation that succeeds,
\* one that fails) a Day Aggregator increments the day progress once and
\* signals the global barrier once; and a day that failed keeps no other
\* day from completing.
C26_AggSignalsOnce ==
    /\ \A d \in DOMAIN aggs : aggs[d].pc = "wait" <=> AggPath(d) = "waiting"
    /\ dayBar.current = Cardinality({d \in DOMAIN aggs : AggPath(d) # "waiting"})
    /\ wgAll = Cardinality(DOMAIN aggs)
                 - Cardinality({d \in DOMAIN aggs : aggs[d].pc = "finished"})
    /\ \A d \in DOMAIN aggs : aggs[d].pc = "signal" => ENABLED AggDone(d)
    /\ \A d, x \in DOMAIN aggs :
          (AggPath(d) = "failed" /\ aggs[x].pc = "wait" /\ DayDone(x))
              => ENABLED AggConcat(x)
    /\ pc \in {"finalize", "done"} => dayBar.current = Cardinality(DOMAIN aggs)

\* a run has ended in which the concatenation of one day failed and
\* another day had no artifact: both signalled and both were counted
C26_FailedAndEmpty ==
    /\ pc = "done"
    /\ \E d, x \in DOMAIN aggs :
          /\ AggPath(d) = "failed" /\ aggs[d].pc = "finished"
          /\ AggPath(x) = "empty" /\ aggs[x].pc = "finished"
    /\ wgAll = 0
    /\ dayBar.current = 2

\* C27: a Day Aggregator tolerates artifacts that are missing: when the day
\* file can be created and some artifact of the day cannot be opened, the
\* other artifacts are folded into the day file and removed, and the day
\* is summarised as SUCCESS.
C27_MissingArtifactTolerated ==
    \A d \in DOMAIN aggs :
        (/\ aggs[d].pc # "wait"
         /\ aggs[d].e = "nil"
         /\ \E i \in TasksOf(d) : ~LeftArtifact(tasks[i]))
            => /\ aggs[d].summary = "SUCCESS"
               /\ \A i \in TasksOf(d) : tasks[i].out \notin DOMAIN files
               /\ pc # "done" =>
                     /\ aggs[d].outputFile \in DOMAIN files
                     /\ files[aggs[d].outputFile] = ExpectedDay(d)

\* a day whose first artifact, in path order, was never created and whose
\* second one was folded into the day file
C27_OneMissingOneFolded ==
    \E d \in DOMAIN aggs : \E i, j \in TasksOf(d) :
        /\ aggs[d].pc = "finished"
        /\ ~LeftArtifact(tasks[i])
        /\ tasks[j].artifact = "full"
        /\ PathLess(tasks[i].out, tasks[j].out)
        /\ aggs[d].summary = "SUCCESS"
        /\ aggs[d].outputFile \in DOMAIN files
        /\ files[aggs[d].outputFile] = <<LineOf(tasks[j])>>
        /\ tasks[j].out \notin DOMAIN files

\* C29: each Day Aggregator that was dispatched writes one summary of its
\* day to the log, SUCCESS or FAIL, and never a second one; it writes FAIL
\* exactly when the concatenation of the day returned an error.
C29_OneSummary ==
    /\ [](\A d \in DOMAIN aggs :
            /\ aggs[d].pc = "wait" <=> aggs[d].summary = "none"
            /\ aggs[d].pc # "wait" => aggs[d].summary \in {"SUCCESS", "FAIL"}
            /\ aggs[d].summary = "FAIL" <=> aggs[d].e \notin {"unset", "nil"})
    /\ [][\A d \in DOMAIN aggs :
            aggs[d].summary # "none" => aggs'[d].summary = aggs[d].summary]_vars

\* a day whose concatenation returned an error was summarised as FAIL
C29_FailSummarised ==
    \E d \in DOMAIN aggs :
        /\ aggs[d].pc = "finished"
        /\ TasksOf(d) # {}
        /\ aggs[d].e = "create"
        /\ aggs[d].summary = "FAIL"

\* a day whose concatenation returned no error was summarised as SUCCESS
C29_SuccessSummarised ==
    \E d \in DOMAIN aggs :
        /\ aggs[d].pc = "finished"
        /\ aggs[d].e = "nil"
        /\ aggs[d].summary = "SUCCESS"

\* ------------------------------------------- claims on a task that fails
\* C28: when a Task Runner fails to open its input, to decompress it or to
\* run the external program, no artifact of the task exists afterwards
\* (and the failure is logged and the pipeline goes on).
C28_FailedTaskLeavesNoArtifact ==
    \A i \in DOMAIN tasks :
        tasks[i].outcome \in {"openFail", "gzipFail", "runFail"}
            => /\ ~LeftArtifact(tasks[i])
               /\ tasks[i].pc \in {"signal", "finished"}

\* a task that could not open or decompress its input leaves no artifact
C28_BeforeTheFilter ==
    \A i \in DOMAIN tasks :
        tasks[i].outcome \in {"openFail", "gzipFail"}
            => /\ ~LeftArtifact(tasks[i])
               /\ tasks[i].pc \in {"signal", "finished"}

\* a task of runScript whose script failed leaves no artifact
C28_FailedScript ==
    handler = "runScript" =>
        \A i \in DOMAIN tasks : tasks[i].outcome = "runFail" => ~LeftArtifact(tasks[i])

\* ------------------------------------------ claims on the dispatch order
\* the task was dispatched before the other, as the hours and, within an
\* hour, the sorted matches of filepath.Glob have it
Before(t, u) == t.ts < u.ts \/ (t.ts = u.ts /\ StrLess(t.suffix, u.suffix))

\* C30: the dispatch is chronological: the Task Runners of a day are
\* dispatched by increasing hour, those of an hour in the order of the
\* matches of the glob; the Task Runners of a day are all dispatched before
\* the Day Aggregator of the day, and those of later days after it.
C30_ChronologicalDispatch ==
    /\ \A i \in 1 .. (Len(tasks) - 1) : Before(tasks[i], tasks[i + 1])
    /\ \A i \in DOMAIN tasks :
          /\ tasks[i].day = Truncate(tasks[i].ts)
          /\ tasks[i].day \notin DOMAIN aggs => tasks[i].day = curDate
          /\ \A d \in DOMAIN aggs :
                IF tasks[i].day <= d THEN i <= aggs[d].after ELSE i > aggs[d].after

\* the Day Aggregator of a day was dispatched after the Task Runner of the
\* day and before the Task Runner of the next day
C30_AggregatorBetween ==
    \E d \in DOMAIN aggs : \E i, j \in DOMAIN tasks :
        /\ tasks[i].day = d
        /\ tasks[j].day = d + HoursPerDay
        /\ i <= aggs[d].after
        /\ aggs[d].after < j

\* two Task Runners of one hour were dispatched
C30_TwoOfAnHour ==
    \E i, j \in DOMAIN tasks : i < j /\ tasks[i].ts = tasks[j].ts

\* --------------------------------------------- claims on the paths written
\* C31: no two units of a run write the same path: the artifact paths of
\* the dispatched tasks are pairwise distinct, the paths of the day files
\* are pairwise distinct, and no artifact path is the path of a day file
\* or of the final file.
C31_DistinctPaths ==
    /\ \A i \in DOMAIN tasks :
          /\ \A j \in (i + 1) .. Len(tasks) : tasks[i].out # tasks[j].out
          /\ \A k \in DOMAIN outputFiles : tasks[i].out # outputFiles[k]
          /\ tasks[i].out # DayPath(curDate)
          /\ tasks[i].out # FinalPath
    /\ \A k \in DOMAIN outputFiles :
          /\ \A l \in (k + 1) .. Len(outputFiles) : outputFiles[k] # outputFiles[l]
          /\ outputFiles[k] # FinalPath
          /\ pc = "iterHour" => outputFiles[k] # DayPath(curDate)

\* two tasks of one hour and the Day Aggregators of two days were dispatched
C31_TwoOfEach ==
    /\ \E i, j \in DOMAIN tasks : i # j /\ tasks[i].ts = tasks[j].ts
    /\ Len(outputFiles) = 2

\* ------------------------------------------ claims on the end of ParseLogs
\* the day files the Day Aggregators wrote
DayFilesWritten == {aggs[d].outputFile : d \in {x \in DOMAIN aggs : WroteDayFile(x)}}

\* C32: with neither the stream nor the single file asked for, the end of
\* ParseLogs creates no file and deletes none: when ParseLogs returns the
\* output directory holds the day files the Day Aggregators wrote, each
\* with the lines it was written with, and nothing went to the stream.
C32_DayFilesLeftAsIs ==
    (pc = "done" /\ ~finalMode.writeStdout /\ ~finalMode.singleFile)
        => /\ DOMAIN files = DayFilesWritten
           /\ \A d \in DOMAIN aggs :
                 WroteDayFile(d) => files[aggs[d].outputFile] = ExpectedDay(d)
           /\ Streamed(stdout) = << >>
           /\ outDir.kind # "absent" \/ dirErr # "nil"

\* a run of two days with neither flag has returned, the two day files in
\* the output directory
C32_TwoDayFilesKept ==
    /\ pc = "done" /\ ~finalMode.writeStdout /\ ~finalMode.singleFile
    /\ Cardinality(DOMAIN files) = 2
    /\ DOMAIN files = DayFilesWritten
    /\ \A d \in DOMAIN aggs : ExpectedDay(d) # << >>

\* C33: one branch runs at the end of ParseLogs and the stream comes first:
\* with both flags set the day files are streamed to the standard output
\* and deleted, and the file <logType>.json is not created.
C33_StreamFirst ==
    pc = "done" =>
        /\ (finalMode.writeStdout /\ finalMode.singleFile)
              => /\ Streamed(stdout) = ExpectedFinal
                 /\ DayFilesLeft = {}
                 /\ FinalPath \notin DOMAIN files
        /\ ~(FinalPath \in DOMAIN files /\ Streamed(stdout) # << >>)
        /\ FinalPath \in DOMAIN files => DayFilesLeft = {}
        /\ finalMode.writeStdout => FinalPath \notin DOMAIN files
        /\ ~finalMode.writeStdout => Streamed(stdout) = << >>

\* a run with both flags has returned: the lines of a day are on the
\* standard output and there is no final file
C33_BothFlags ==
    /\ pc = "done" /\ finalMode.writeStdout /\ finalMode.singleFile
    /\ Streamed(stdout) # << >>
    /\ Streamed(stdout) = ExpectedFinal
    /\ FinalPath \notin DOMAIN files

\* C34: TryCreateDir is idempotent: when a call succeeds and nothing else
\* changes the filesystem, the same call made again succeeds and creates
\* nothing, so that the two calls create one directory at most.
C34_Idempotent ==
    (tcd.call = 2 /\ tcd.first.err = "nil") =>
        /\ tcd.made = 0
        /\ tcd.dir = tcd.given
        /\ tcd.first.made + tcd.made <= 1
        /\ tcd.pc = "returned" => tcd.err = "nil"

\* the second call has returned on the directory the first call made
C34_SecondOnCreated ==
    /\ tcd.call = 2
    /\ tcd.pc = "returned"
    /\ tcd.first.err = "nil"
    /\ tcd.first.made = 1
    /\ tcd.err = "nil"
    /\ tcd.empty

C36_DayTotal ==
    pc # "start" =>
        /\ dayBar.current <= dayBar.total
        /\ pc \in {"finalize", "done"} =>
              /\ dayBar.total = Cardinality(DOMAIN aggs)
              /\ dayBar.current = dayBar.total

\* where the end of the range is in the second half of its day, or the
\* glob fails, the days done do not exceed dayCount
C36_EndsAfterNoon ==
    (pc # "start" /\ endTime - Truncate(endTime) >= HoursPerDay \div 2)
        => /\ dayBar.current <= dayBar.total
           /\ pc \in {"finalize", "done"} => dayBar.current = dayBar.total

\* ------------------------------------------------ claims on the barriers
\* C37: a barrier is registered on before it is waited on: the Task Runners
\* of a day are registered before the Day Aggregator of the day is
\* dispatched, the Day Aggregators before the driver waits; no barrier goes
\* below zero, and none is registered on once its waiter was released.
C37_RegisteredBeforeWaiting ==
    /\ wgAll >= 0
    /\ wgAll <= Cardinality(DOMAIN aggs)
    /\ \A d \in DOMAIN wgDate : wgDate[d] >= 0
    /\ \A i \in DOMAIN tasks :
          /\ tasks[i].day \in DOMAIN wgDate
          /\ tasks[i].day \in DOMAIN aggs => i <= aggs[tasks[i].day].after
          /\ tasks[i].pc # "finished" => wgDate[tasks[i].day] > 0
    /\ \A d \in DOMAIN aggs :
          /\ aggs[d].pc # "wait" => wgDate[d] = 0
    /\ pc \in {"await", "finalize", "done"} =>
          /\ ~DayCond(curDate)
          /\ \A i \in DOMAIN tasks : tasks[i].day \in DOMAIN aggs
    /\ pc \in {"finalize", "done"} => wgAll = 0

\* the Day Aggregator of a day with a task was released while that of
\* another day waits on a barrier that is not yet at zero
C37_OneReleasedOneWaiting ==
    \E d, x \in DOMAIN aggs :
        /\ aggs[d].pc = "finished" /\ TasksOf(d) # {}
        /\ aggs[x].pc = "wait" /\ wgDate[x] > 0
        /\ wgAll = 1

\* the artifact paths of the tasks in the order of their dispatch
OutOf(from, to) == [k \in 1 .. (to - from) |-> tasks[from + k].out]

\* C38: each day has a barrier and a list of its own: a Task Runner signals
\* the barrier of the day it was dispatched for, the list a Day Aggregator
\* is given is the artifact paths of the tasks of its day, and the driver
\* leaves the list alone once the aggregator is dispatched.
C38_OwnBarrierAndList ==
    /\ \A d \in DOMAIN aggs :
          LET own == TasksOf(d)
          IN  IF aggs[d].pc = "wait"
              THEN aggs[d].inputFiles
                       = OutOf(aggs[d].after - Cardinality(own), aggs[d].after)
              ELSE /\ Range(aggs[d].inputFiles) = {tasks[i].out : i \in own}
                   /\ Len(aggs[d].inputFiles) = Cardinality(own)
    /\ \A d \in DOMAIN wgDate : wgDate[d] = Cardinality(Holding(d))
    /\ pc = "iterHour" =>
          tempFiles = OutOf(Len(tasks) - Cardinality(TasksOf(curDate)), Len(tasks))

\* two Day Aggregators wait, each with the artifact of the task of its day
C38_TwoLists ==
    \E d, x \in DOMAIN aggs :
        /\ d < x
        /\ aggs[d].pc = "wait" /\ aggs[x].pc = "wait"
        /\ Len(aggs[d].inputFiles) = 1 /\ Len(aggs[x].inputFiles) = 1
        /\ aggs[d].inputFiles # aggs[x].inputFiles

C40_CreateFailureTouchesNothing ==
    (concat.pc \in {"failed", "returned"} /\ ~concat.creatable) =>
        /\ concat.pc = "failed"
        /\ concat.err = "create"
        /\ concat.fs = concat.fs0
        /\ concat.inputFiles = concat.given
        /\ concat.out = << >>
        /\ concat.written = {}
        /\ concat.logged = {}
        /\ Summary(concat.err # "nil") = "FAIL"

\* ConcatFiles has returned the error of os.Create on a call that was to
\* delete its two sources, which are both still there
C40_TwoSourcesLeft ==
    /\ concat.pc = "failed"
    /\ concat.err = "create"
    /\ concat.deleteInputAfterRead
    /\ Len(concat.given) = 2
    /\ DOMAIN concat.fs = Range(concat.given)

====
